---- MODULE Spec2Model ----
(***************************************************************************)
(* The scheduled-polling subsystem of versus-incident                      *)
(* (pkg/scheduler): job registration against the cron engine, the firing   *)
(* of a job (fetch -> filter -> build -> dispatch), and Stop.              *)
(*                                                                         *)
(* Strings the code parses (schedules) are sequences of one-character      *)
(* strings, so that splitting, trimming and number parsing are computed.   *)
(* The cron engine is robfig/cron/v3 as NewScheduler configures it: the    *)
(* standard five-field parser, and no job wrapper (no chain), so the run   *)
(* loop starts every due entry's job on a goroutine of its own.            *)
(*                                                                         *)
(* Four specifications share the actions:                                  *)
(*   Spec        registration, firings and Stop, of any configuration; the *)
(*               clock stands still and ticks come at any moment;          *)
(*   SpecTimed   the same with the clock and the run loop's bookkeeping    *)
(*               of each entry's Prev and Next, for jobs that run every    *)
(*               second;                                                   *)
(*   SpecStatus  SpecTimed with calls of GetJobStatus at any moment;       *)
(*   SpecPure    one call of FilterAlertsByLabels, of                      *)
(*               ConvertToIncidentPayload or of ParseSimpleSchedule.       *)
(***************************************************************************)
EXTENDS Integers, Sequences, FiniteSets, Bags, TLC

\* ------------------------------------------------------------- bounds
\* at most this many job definitions in the configuration
MaxJobs == 2
\* at most this many firings are started in one run of the process
MaxFirings == 2
\* at most this many calls of Stop
MaxStops == 2
\* the clock runs from 0 to this many seconds
MaxTime == 2
\* at most this many alerts in an argument of a pure function
MaxAlerts == 3
\* at most this many characters in an argument of ParseSimpleSchedule
MaxLen == 5

\* Go's nil, for a value that is otherwise a record; and no error
Nil == [nil |-> TRUE]
NoErr == ""

\* ------------------------------------------------------------ strings
Digits == {"0", "1", "2", "3", "4", "5", "6", "7", "8", "9"}

DigitVal(c) ==
  CASE c = "0" -> 0 [] c = "1" -> 1 [] c = "2" -> 2 [] c = "3" -> 3
    [] c = "4" -> 4 [] c = "5" -> 5 [] c = "6" -> 6 [] c = "7" -> 7
    [] c = "8" -> 8 [] c = "9" -> 9

\* strings.Split(s, sep) for a one-character separator: the pieces between
\* the separators, empty pieces kept (n separators give n+1 pieces)
RECURSIVE SplitAcc(_, _, _)
SplitAcc(s, sep, cur) ==
  IF s = <<>> THEN <<cur>>
  ELSE IF Head(s) = sep THEN <<cur>> \o SplitAcc(Tail(s), sep, <<>>)
  ELSE SplitAcc(Tail(s), sep, Append(cur, Head(s)))

Split(s, sep) == SplitAcc(s, sep, <<>>)

\* strings.Fields(s): the pieces between runs of white space, none empty
Fields(s) == SelectSeq(Split(s, " "), LAMBDA p : p # <<>>)

\* strings.TrimLeft(s, "0")
RECURSIVE TrimLeftZeros(_)
TrimLeftZeros(s) ==
  IF s # <<>> /\ Head(s) = "0" THEN TrimLeftZeros(Tail(s)) ELSE s

IsUInt(s) == s # <<>> /\ \A i \in 1..Len(s) : s[i] \in Digits

\* strconv.Atoi on an unsigned decimal
RECURSIVE AtoiAcc(_, _)
AtoiAcc(s, acc) ==
  IF s = <<>> THEN acc ELSE AtoiAcc(Tail(s), 10 * acc + DigitVal(Head(s)))

Atoi(s) == AtoiAcc(s, 0)

DigitChar(d) ==
  CASE d = 0 -> "0" [] d = 1 -> "1" [] d = 2 -> "2" [] d = 3 -> "3"
    [] d = 4 -> "4" [] d = 5 -> "5" [] d = 6 -> "6" [] d = 7 -> "7"
    [] d = 8 -> "8" [] d = 9 -> "9"

\* fmt.Sprintf("%d", n) for n >= 0: the decimal digits, no leading zero
RECURSIVE Itoa(_)
Itoa(n) ==
  IF n < 10 THEN <<DigitChar(n)>> ELSE Append(Itoa(n \div 10), DigitChar(n % 10))

\* fmt.Sprintf("%s %s * * *", minute, hour)
DailyPattern(minute, hour) ==
  minute \o <<" ">> \o hour \o <<" ", "*", " ", "*", " ", "*">>

\* ParseSimpleSchedule: "HH:MM" to a daily cron expression
ParseSimpleSchedule(simpleTime) ==
  LET parts == Split(simpleTime, ":") IN
  IF Len(parts) # 2 THEN [err |-> TRUE, cron |-> <<>>]
  ELSE LET h == TrimLeftZeros(parts[1])
           m == TrimLeftZeros(parts[2])
           hour == IF h = <<>> THEN <<"0">> ELSE h
           minute == IF m = <<>> THEN <<"0">> ELSE m
       IN [err |-> FALSE, cron |-> DailyPattern(minute, hour)]

\* --------------------------------------------------- the cron parser
\* The field ranges of cron's standard parser: minute, hour, day of month,
\* month, day of week.
CronBounds ==
  << [min |-> 0, max |-> 59], [min |-> 0, max |-> 23], [min |-> 1, max |-> 31],
     [min |-> 1, max |-> 12], [min |-> 0, max |-> 6] >>

\* One field of a cron expression, over the alphabet of the schedules below
\* (digits and "*"): a star, or a number within the field's range.
CronFieldOK(f, b) ==
  \/ f = <<"*">>
  \/ IsUInt(f) /\ b.min <= Atoi(f) /\ Atoi(f) <= b.max

\* The descriptors of cron's standard parser that name a calendar schedule
Descriptors ==
  { <<"@", "y", "e", "a", "r", "l", "y">>,
    <<"@", "a", "n", "n", "u", "a", "l", "l", "y">>,
    <<"@", "m", "o", "n", "t", "h", "l", "y">>,
    <<"@", "w", "e", "e", "k", "l", "y">>,
    <<"@", "d", "a", "i", "l", "y">>,
    <<"@", "m", "i", "d", "n", "i", "g", "h", "t">>,
    <<"@", "h", "o", "u", "r", "l", "y">> }

\* The descriptor "@every <duration>"
EveryPrefix == <<"@", "e", "v", "e", "r", "y", " ">>

IsEvery(spec) ==
  /\ Len(spec) > Len(EveryPrefix)
  /\ SubSeq(spec, 1, Len(EveryPrefix)) = EveryPrefix

EveryDuration(spec) == SubSeq(spec, Len(EveryPrefix) + 1, Len(spec))

\* time.ParseDuration, over the durations of the schedules below: a decimal
\* number followed by one unit, "s", "m" or "h"
DurationOK(d) ==
  /\ Len(d) >= 2
  /\ d[Len(d)] \in {"s", "m", "h"}
  /\ IsUInt(SubSeq(d, 1, Len(d) - 1))

\* The duration in seconds
ParseDuration(d) ==
  Atoi(SubSeq(d, 1, Len(d) - 1))
    * (CASE d[Len(d)] = "s" -> 1 [] d[Len(d)] = "m" -> 60 [] d[Len(d)] = "h" -> 3600)

\* cron.Every(duration): a delay of less than a second is one second
EveryDelay(spec) ==
  LET d == ParseDuration(EveryDuration(spec)) IN IF d < 1 THEN 1 ELSE d

\* ConstantDelaySchedule.Next(t), t in whole seconds: the time of the next
\* activation of an "@every" schedule after t
ScheduleNext(spec, t) == t + EveryDelay(spec)

\* cron.Cron.AddFunc's parse of the schedule: the empty string is an error;
\* a schedule that begins with "@" is a descriptor; any other is five
\* fields, each within its range.
CronParseOK(spec) ==
  LET fs == Fields(spec) IN
  /\ spec # <<>>
  /\ IF Head(spec) = "@"
       THEN \/ spec \in Descriptors
            \/ IsEvery(spec) /\ DurationOK(EveryDuration(spec))
       ELSE /\ Len(fs) = 5
            /\ \A i \in 1..5 : CronFieldOK(fs[i], CronBounds[i])

\* ---------------------------------------------------------- the inputs
EmptyLabels == [k \in {} |-> ""]
TeamX == [team |-> "x"]
TeamY == [team |-> "y"]

SchedEmpty == <<>>
SchedSimple == <<"0", "9", ":", "0", "0">>
SchedDaily == <<"0", " ", "9", " ", "*", " ", "*", " ", "*">>
SchedMinutely == <<"*", " ", "*", " ", "*", " ", "*", " ", "*">>
SchedRange == <<"6", "1", " ", "9", " ", "*", " ", "*", " ", "*">>
SchedEvery == <<"@", "e", "v", "e", "r", "y", " ", "1", "s">>

\* config.ScheduledChannelsConfig
NoChannels ==
  [SlackChannelID |-> "", TelegramChatID |-> "", LarkWebhookKey |-> "",
   MSTeamsPowerURLKey |-> "", EmailTo |-> ""]
SomeChannels ==
  [SlackChannelID |-> "C1", TelegramChatID |-> "", LarkWebhookKey |-> "",
   MSTeamsPowerURLKey |-> "", EmailTo |-> "ops@example.org"]

\* config.AlertmanagerConfig: the backends a job can name (the user name
\* and the password are left out)
AmOne == [URL |-> "http://am-1:9093"]
AmTwo == [URL |-> "http://am-2:9093"]

\* config.ScheduledJob: the job definitions a configuration is made of
JobDefs ==
  { [Name |-> "a", Enable |-> TRUE, Schedule |-> SchedDaily,
     Alertmanager |-> AmOne,
     MatchLabels |-> EmptyLabels, Channels |-> NoChannels],
    [Name |-> "b", Enable |-> TRUE, Schedule |-> SchedMinutely,
     Alertmanager |-> AmTwo,
     MatchLabels |-> TeamX, Channels |-> SomeChannels],
    [Name |-> "b", Enable |-> TRUE, Schedule |-> SchedSimple,
     Alertmanager |-> AmOne,
     MatchLabels |-> EmptyLabels, Channels |-> NoChannels],
    [Name |-> "a", Enable |-> TRUE, Schedule |-> SchedEmpty,
     Alertmanager |-> AmOne,
     MatchLabels |-> EmptyLabels, Channels |-> NoChannels],
    [Name |-> "b", Enable |-> TRUE, Schedule |-> SchedRange,
     Alertmanager |-> AmTwo,
     MatchLabels |-> EmptyLabels, Channels |-> NoChannels],
    [Name |-> "a", Enable |-> FALSE, Schedule |-> SchedEmpty,
     Alertmanager |-> AmOne,
     MatchLabels |-> TeamX, Channels |-> NoChannels] }

\* config.ScheduledAlertConfig
Configs ==
  [ Enable : BOOLEAN,
    Jobs : UNION { [1..n -> JobDefs] : n \in 0..MaxJobs } ]

\* The job definitions of the configurations with a clock: every second,
\* two of them under one name with predicates and channels of their own
TimedJobA ==
  [Name |-> "a", Enable |-> TRUE, Schedule |-> SchedEvery, Alertmanager |-> AmOne,
   MatchLabels |-> EmptyLabels, Channels |-> NoChannels]
TimedJobA2 ==
  [Name |-> "a", Enable |-> TRUE, Schedule |-> SchedEvery, Alertmanager |-> AmTwo,
   MatchLabels |-> TeamX, Channels |-> SomeChannels]
TimedJobB ==
  [Name |-> "b", Enable |-> TRUE, Schedule |-> SchedEvery, Alertmanager |-> AmTwo,
   MatchLabels |-> TeamY, Channels |-> NoChannels]

TimedConfigs ==
  [ Enable : {TRUE},
    Jobs : { <<TimedJobA>>, <<TimedJobA, TimedJobB>>, <<TimedJobA, TimedJobA2>> } ]

\* AlertmanagerAlert
AlertX == [labels |-> TeamX, annotations |-> [summary |-> "sx"],
           state |-> "active", fingerprint |-> "f1"]
AlertY == [labels |-> TeamY, annotations |-> [summary |-> "sy"],
           state |-> "active", fingerprint |-> "f2"]
AlertS == [labels |-> TeamX, annotations |-> [summary |-> "ss"],
           state |-> "suppressed", fingerprint |-> "f3"]

AlertXHi == [labels |-> [team |-> "x", severity |-> "hi"],
             annotations |-> [summary |-> "sh"],
             state |-> "active", fingerprint |-> "f4"]
AlertBare == [labels |-> EmptyLabels, annotations |-> EmptyLabels,
              state |-> "active", fingerprint |-> "f5"]

\* What the backend answers to one request: no answer (a transport error),
\* or a status code with a body that is a list of alerts or not JSON.
Responses ==
  { [kind |-> "transport", status |-> 0, body |-> <<>>, json |-> FALSE] }
  \cup [ kind : {"http"}, status : {500}, body : {<<>>}, json : {TRUE} ]
  \cup [ kind : {"http"}, status : {200}, body : {<<>>}, json : {FALSE} ]
  \cup [ kind : {"http"}, status : {200}, json : {TRUE},
         body : { <<>>, <<AlertY>>, <<AlertS>>, <<AlertX, AlertY>> } ]

\* ------------------------------------------------ the pure functions
\* NewAlertmanagerClient: the client of one backend
NewAlertmanagerClient(am) == [baseURL |-> am.URL]

\* A faulty variant: every alert of the answer is kept, whatever its state
GetFiringAlerts_KeepsAll(resp) ==
  IF resp.kind = "transport" THEN [err |-> TRUE, alerts |-> <<>>]
  ELSE IF resp.status # 200 THEN [err |-> TRUE, alerts |-> <<>>]
  ELSE IF ~resp.json THEN [err |-> TRUE, alerts |-> <<>>]
  ELSE [err |-> FALSE, alerts |-> resp.body]

\* A faulty variant: the status code of the answer is not looked at
GetFiringAlerts_IgnoresStatus(resp) ==
  IF resp.kind = "transport" THEN [err |-> TRUE, alerts |-> <<>>]
  ELSE IF ~resp.json THEN [err |-> TRUE, alerts |-> <<>>]
  ELSE [err |-> FALSE,
        alerts |-> SelectSeq(resp.body, LAMBDA a : a.state = "active")]

\* AlertmanagerClient.GetFiringAlerts: a transport error, a status other
\* than 200 or a body that does not parse is an error; otherwise the alerts
\* of the body whose state is "active", in the body's order.
GetFiringAlerts(resp) ==
  IF resp.kind = "transport" THEN [err |-> TRUE, alerts |-> <<>>]
  ELSE IF resp.status # 200 THEN [err |-> TRUE, alerts |-> <<>>]
  ELSE IF ~resp.json THEN [err |-> TRUE, alerts |-> <<>>]
  ELSE [err |-> FALSE,
        alerts |-> SelectSeq(resp.body, LAMBDA a : a.state = "active")]

\* A faulty variant: a key the alert lacks is taken for a match
matchesLabels_MissingKeyPasses(alertLabels, matchLabels) ==
  \A key \in DOMAIN matchLabels :
    key \notin DOMAIN alertLabels \/ alertLabels[key] = matchLabels[key]

\* matchesLabels
matchesLabels(alertLabels, matchLabels) ==
  \A key \in DOMAIN matchLabels :
    key \in DOMAIN alertLabels /\ alertLabels[key] = matchLabels[key]

\* FilterAlertsByLabels
FilterAlertsByLabels(alerts, matchLabels) ==
  IF Cardinality(DOMAIN matchLabels) = 0 THEN alerts
  ELSE SelectSeq(alerts, LAMBDA a : matchesLabels(a.labels, matchLabels))

\* One record of the payload's alerts list
AlertPayload(alert) ==
  [status |-> alert.state, labels |-> alert.labels,
   annotations |-> alert.annotations, fingerprint |-> alert.fingerprint]

\* fmt.Sprintf("scheduled-%d", unix)
GroupKey(unix) == <<"scheduled-">> \o Itoa(unix)

\* A faulty variant: the common labels and annotations are the last alert's
ConvertToIncidentPayload_LastAlert(alerts, unix) ==
  IF Len(alerts) = 0 THEN Nil
  ELSE [receiver |-> "scheduled-alert",
        status |-> "firing",
        alerts |-> [i \in 1..Len(alerts) |-> AlertPayload(alerts[i])],
        commonLabels |-> alerts[Len(alerts)].labels,
        commonAnnotations |-> alerts[Len(alerts)].annotations,
        externalURL |-> "",
        groupKey |-> GroupKey(unix)]

\* ConvertToIncidentPayload: nil for no alert, otherwise the envelope; unix
\* is what time.Now().Unix() returns at the call (the alerts' own time
\* stamps and generator URLs are not part of this model)
ConvertToIncidentPayload(alerts, unix) ==
  IF Len(alerts) = 0 THEN Nil
  ELSE [receiver |-> "scheduled-alert",
        status |-> "firing",
        alerts |-> [i \in 1..Len(alerts) |-> AlertPayload(alerts[i])],
        commonLabels |-> alerts[1].labels,
        commonAnnotations |-> alerts[1].annotations,
        externalURL |-> "",
        groupKey |-> GroupKey(unix)]

ChannelKeys ==
  {"slack_channel_id", "telegram_chat_id", "lark_other_webhook_url",
   "msteams_other_power_url", "email_to"}

ChannelValue(ch, key) ==
  CASE key = "slack_channel_id" -> ch.SlackChannelID
    [] key = "telegram_chat_id" -> ch.TelegramChatID
    [] key = "lark_other_webhook_url" -> ch.LarkWebhookKey
    [] key = "msteams_other_power_url" -> ch.MSTeamsPowerURLKey
    [] key = "email_to" -> ch.EmailTo

\* A faulty variant: a channel key is set whether its override is empty or not
buildParamsFromJob_AllKeys(job) ==
  [k \in {"oncall_enable"} \cup ChannelKeys |->
     IF k = "oncall_enable" THEN "false" ELSE ChannelValue(job.Channels, k)]

\* buildParamsFromJob
buildParamsFromJob(job) ==
  LET keys == {"oncall_enable"}
              \cup {k \in ChannelKeys : ChannelValue(job.Channels, k) # ""}
  IN [k \in keys |->
        IF k = "oncall_enable" THEN "false" ELSE ChannelValue(job.Channels, k)]

\* ------------------------------------------------------------ the state
VARIABLES
  cfg,        \* Scheduler.config: the configuration the scheduler was built with
  startPc,    \* Start: "new", "adding", then "started", "disabled" or "failed"
  idx,        \* Start: the number of calls of addJob made so far
  startErr,   \* the error addJob returned, if any: [job, kind]
  entries,    \* the cron engine's entries; an EntryID is an index
  jobs,       \* Scheduler.jobs: job name -> EntryID
  running,    \* cron.running: the run loop is started and not stopped
  firings,    \* the bag of the firings started so far, finished ones included
  jobWaiter,  \* cron.jobWaiter: the number of job goroutines not yet returned
  stopPc,     \* Stop: "idle", or "waiting" on <-ctx.Done()
  stops,      \* the number of calls of Stop that have returned
  stopSaw,    \* whether a firing was in flight when Stop was last called
  now,        \* the clock, in seconds (time.Now().Unix())
  times,      \* cron.Entry.Prev and .Next of each entry, once the run loop has
              \* begun; the zero time is 0
  loop,       \* the run loop goroutine: [pc, entry], pc "new", "select" (waiting
              \* in its select) or "update" (between the two assignments of a tick)
  mu,         \* Scheduler.mu: the number of readers that hold it (the writer,
              \* addJob, holds it within one step)
  query,      \* a call of GetJobStatus: [pc, todo, result]
  call,       \* the arguments of a call of a pure function, Nil if there is none
  ret         \* what that call returned, Nil before it returns

vars ==
  << cfg, startPc, idx, startErr, entries, jobs, running, firings, jobWaiter,
     stopPc, stops, stopSaw, now, times, loop, mu, query, call, ret >>

startVars == << startPc, idx, startErr, entries, jobs >>
stopVars == << stopPc, stops, stopSaw >>
\* the clock and the run loop's bookkeeping, the status query, the calls of
\* pure functions: what the steps of registration and of a firing leave alone
auxVars == << now, times, loop, mu, query, call, ret >>

\* NewScheduler: an empty registry, a cron engine with no entry, not running
InitScheduler ==
  /\ startPc = "new"
  /\ idx = 0
  /\ startErr = Nil
  /\ entries = <<>>
  /\ jobs = [n \in {} |-> 0]
  /\ running = FALSE
  /\ firings = EmptyBag
  /\ jobWaiter = 0
  /\ stopPc = "idle"
  /\ stops = 0
  /\ stopSaw = FALSE
  /\ times = <<>>
  /\ loop = [pc |-> "new", entry |-> 0, at |-> 0]
  /\ mu = 0
  /\ query = [pc |-> "idle", todo |-> {}, result |-> <<>>]

\* The scheduler of any configuration, the clock left out: it stands still
Init ==
  /\ cfg \in Configs
  /\ InitScheduler
  /\ now = 0
  /\ call = Nil
  /\ ret = Nil

\* The firings, each a record; two firings in the same state are two copies
Firings == BagToSet(firings)
InFlight == {f \in Firings : f.pc # "done"}

\* A faulty variant: a firing runs the definition the registry holds for
\* its job's name
JobOf_ByName(f) == cfg.Jobs[entries[jobs[cfg.Jobs[entries[f.entry].def].Name]].def]

\* The definition createJobFunc closed over when entry f.entry was added
JobOf(f) == cfg.Jobs[entries[f.entry].def]
Replace(f, g) == (firings (-) SetToBag({f})) (+) SetToBag({g})

\* ---------------------------------------------------------------- Start
\* Start, the global switch: a disabled configuration returns nil at once
StartBegin ==
  /\ startPc = "new"
  /\ startPc' = IF cfg.Enable THEN "adding" ELSE "disabled"
  /\ UNCHANGED << cfg, auxVars, idx, startErr, entries, jobs, running, firings,
                  jobWaiter, stopVars >>

\* A faulty variant: the registry is written before the cron engine has
\* accepted the schedule
addJob_RegistersFirst(job, i) ==
  LET reg == [n \in DOMAIN jobs \cup {job.Name} |->
                IF n = job.Name THEN Len(entries) + 1 ELSE jobs[n]]
  IN
  IF ~job.Enable
    THEN [err |-> NoErr, entries |-> entries, jobs |-> jobs]
  ELSE IF job.Schedule = <<>>
    THEN [err |-> "schedule is required", entries |-> entries, jobs |-> jobs]
  ELSE IF ~CronParseOK(job.Schedule)
    THEN [err |-> "invalid cron expression", entries |-> entries, jobs |-> reg]
  ELSE [err |-> NoErr,
        entries |-> Append(entries, [def |-> i, spec |-> job.Schedule]),
        jobs |-> reg]

\* A faulty variant: the job's own switch is not looked at
addJob_IgnoresEnable(job, i) ==
  IF job.Schedule = <<>>
    THEN [err |-> "schedule is required", entries |-> entries, jobs |-> jobs]
  ELSE IF ~CronParseOK(job.Schedule)
    THEN [err |-> "invalid cron expression", entries |-> entries, jobs |-> jobs]
  ELSE [err |-> NoErr,
        entries |-> Append(entries, [def |-> i, spec |-> job.Schedule]),
        jobs |-> [n \in DOMAIN jobs \cup {job.Name} |->
                    IF n = job.Name THEN Len(entries) + 1 ELSE jobs[n]]]

\* A faulty variant: the registry keeps the first entry registered for a name
addJob_FirstWins(job, i) ==
  IF ~job.Enable
    THEN [err |-> NoErr, entries |-> entries, jobs |-> jobs]
  ELSE IF job.Schedule = <<>>
    THEN [err |-> "schedule is required", entries |-> entries, jobs |-> jobs]
  ELSE IF ~CronParseOK(job.Schedule)
    THEN [err |-> "invalid cron expression", entries |-> entries, jobs |-> jobs]
  ELSE [err |-> NoErr,
        entries |-> Append(entries, [def |-> i, spec |-> job.Schedule]),
        jobs |-> [n \in DOMAIN jobs \cup {job.Name} |->
                    IF n \in DOMAIN jobs THEN jobs[n] ELSE Len(entries) + 1]]

\* addJob(job) for the i-th definition: what it returns and what it leaves
\* in the cron engine and in the registry
addJob(job, i) ==
  IF ~job.Enable
    THEN [err |-> NoErr, entries |-> entries, jobs |-> jobs]
  ELSE IF job.Schedule = <<>>
    THEN [err |-> "schedule is required", entries |-> entries, jobs |-> jobs]
  ELSE IF ~CronParseOK(job.Schedule)
    THEN [err |-> "invalid cron expression", entries |-> entries, jobs |-> jobs]
  ELSE [err |-> NoErr,
        entries |-> Append(entries, [def |-> i, spec |-> job.Schedule]),
        jobs |-> [n \in DOMAIN jobs \cup {job.Name} |->
                    IF n = job.Name THEN Len(entries) + 1 ELSE jobs[n]]]

\* A faulty variant: Start logs the error of addJob and goes on
StartAfterAdd_Continues(err) == "adding"

\* Start's loop: the first error of addJob ends Start (and main, which
\* ends the process with log.Fatalf)
StartAfterAdd(err) == IF err # NoErr THEN "failed" ELSE "adding"

\* One turn of Start's loop. addJob writes the registry under s.mu.Lock(),
\* which no reader may hold
AddJob ==
  /\ startPc = "adding"
  /\ idx < Len(cfg.Jobs)
  /\ mu = 0
  /\ LET i == idx + 1
         job == cfg.Jobs[i]
         r == addJob(job, i)
     IN /\ idx' = i
        /\ entries' = r.entries
        /\ jobs' = r.jobs
        /\ startErr' = IF r.err # NoErr THEN [job |-> job.Name, kind |-> r.err]
                                        ELSE startErr
        /\ startPc' = StartAfterAdd(r.err)
  /\ UNCHANGED << cfg, auxVars, running, firings, jobWaiter, stopVars >>

\* Start, after the loop: s.cron.Start()
CronStart ==
  /\ startPc = "adding"
  /\ idx = Len(cfg.Jobs)
  /\ running' = TRUE
  /\ startPc' = "started"
  /\ UNCHANGED << cfg, auxVars, idx, startErr, entries, jobs, firings, jobWaiter,
                  stopVars >>

\* ------------------------------------------------------------- a firing
\* The job function of entry e as it begins: nothing fetched yet
NewFiring(e) ==
  [entry |-> e, pc |-> "fetch", client |-> Nil, resp |-> Nil, alerts |-> <<>>,
   matched |-> <<>>, payload |-> Nil, calls |-> <<>>, log |-> <<>>,
   outcome |-> ""]

\* A faulty variant: the run loop runs the job itself, so that no tick
\* starts while a firing is in flight
Tick_OneAtATime(e) ==
  /\ running
  /\ InFlight = {}
  /\ BagCardinality(firings) < MaxFirings
  /\ firings' = firings (+) SetToBag({NewFiring(e)})
  /\ jobWaiter' = jobWaiter + 1
  /\ UNCHANGED << cfg, auxVars, startVars, running, stopVars >>

\* cron.startJob: the job of entry e starts on a new goroutine; nothing
\* looks at the entry's earlier firings
startJob(e) ==
  /\ running
  /\ BagCardinality(firings) < MaxFirings
  /\ firings' = firings (+) SetToBag({NewFiring(e)})
  /\ jobWaiter' = jobWaiter + 1
  /\ UNCHANGED << cfg, startVars, running, stopVars >>

\* The cron run loop finds entry e due and starts its job, the clock and
\* the entry's Prev and Next left out
Tick(e) ==
  /\ startJob(e)
  /\ UNCHANGED auxVars

\* A faulty variant: a firing that fails takes its job out of the registry
EndFiring_Deregisters(f, g, outcome) ==
  /\ firings' = Replace(f, [g EXCEPT !.pc = "done", !.outcome = outcome])
  /\ jobWaiter' = jobWaiter - 1
  /\ jobs' = IF outcome = "sent" THEN jobs
             ELSE [n \in DOMAIN jobs \ {JobOf(f).Name} |-> jobs[n]]
  /\ UNCHANGED << cfg, auxVars, startPc, idx, startErr, entries, running, stopVars >>

\* The job function returns, f having become g: the goroutine ends (defer
\* jobWaiter.Done()); no return of the job function touches the cron
\* engine or the registry
EndFiring(f, g, outcome) ==
  /\ firings' = Replace(f, [g EXCEPT !.pc = "done", !.outcome = outcome])
  /\ jobWaiter' = jobWaiter - 1
  /\ UNCHANGED << cfg, auxVars, startVars, running, stopVars >>

\* The job function goes on, f having become g
Continue(f, g) ==
  /\ firings' = Replace(f, g)
  /\ UNCHANGED << cfg, auxVars, startVars, running, jobWaiter, stopVars >>

\* The client of the job's backend is made and client.GetFiringAlerts()
\* returns: an error ends the firing
FetchReturn(f, resp) ==
  /\ f.pc = "fetch"
  /\ LET r == GetFiringAlerts(resp)
         g == [f EXCEPT !.client = NewAlertmanagerClient(JobOf(f).Alertmanager),
                        !.resp = resp, !.log = Append(@, "fetch")]
     IN IF r.err
          THEN EndFiring(f, g, "fetch_error")
          ELSE Continue(f, [g EXCEPT !.alerts = r.alerts, !.pc = "filter"])

\* A faulty variant: no test for an empty match, the build always follows
FilterStep_NoEmptyCheck(f) ==
  /\ f.pc = "filter"
  /\ LET m == FilterAlertsByLabels(f.alerts, JobOf(f).MatchLabels)
         g == [f EXCEPT !.matched = m, !.log = Append(@, "filter")]
     IN Continue(f, [g EXCEPT !.pc = "build"])

\* FilterAlertsByLabels, then the test for no match
FilterStep(f) ==
  /\ f.pc = "filter"
  /\ LET m == FilterAlertsByLabels(f.alerts, JobOf(f).MatchLabels)
         g == [f EXCEPT !.matched = m, !.log = Append(@, "filter")]
     IN IF Len(m) = 0
          THEN EndFiring(f, g, "no_match")
          ELSE Continue(f, [g EXCEPT !.pc = "build"])

\* The call of services.CreateIncident: the payload with the job's name
\* added to it (the time stamp scheduled_time is left out), and the
\* parameters of the job's channel overrides
DispatchCall(job, payload) ==
  [source |-> "scheduled",
   payload |-> [k \in DOMAIN payload \cup {"scheduled_job"} |->
                  IF k = "scheduled_job" THEN job.Name ELSE payload[k]],
   params |-> buildParamsFromJob(job)]

\* ConvertToIncidentPayload, then the call of services.CreateIncident,
\* which blocks until the delivery pipeline answers
BuildStep(f) ==
  /\ f.pc = "build"
  /\ LET p == ConvertToIncidentPayload(f.matched, now)
         g == [f EXCEPT !.payload = p, !.log = Append(@, "build")]
     IN IF p = Nil
          THEN EndFiring(f, g, "build_failed")
          ELSE Continue(f,
                 [g EXCEPT !.calls = Append(@, DispatchCall(JobOf(f), p)),
                           !.log = Append(@, "dispatch"),
                           !.pc = "dispatch"])

\* A faulty variant: a dispatch error is answered by calling again
DispatchReturn_Retries(f, ok) ==
  /\ f.pc = "dispatch"
  /\ IF ok
       THEN EndFiring(f, f, "sent")
       ELSE Continue(f, [f EXCEPT !.calls = Append(@, f.calls[1])])

\* services.CreateIncident returns, with an error or without: the firing
\* ends either way
DispatchReturn(f, ok) ==
  /\ f.pc = "dispatch"
  /\ EndFiring(f, f, IF ok THEN "sent" ELSE "dispatch_error")

\* ----------------------------------------------------------------- Stop
\* A faulty variant: the run loop goes on after Stop
CronStop_KeepsRunning == running

\* A faulty variant: Stop does not wait for the job goroutines
StopMayReturn_NoDrain == TRUE

\* A faulty variant: a call of Stop on a stopped engine starts it again
CronStop_Toggles == ~running

\* cron.Stop(): the run loop takes the stop signal and ends
CronStop == FALSE

\* <-ctx.Done(): the context is done when jobWaiter.Wait() returns
StopMayReturn == jobWaiter = 0

StopCall ==
  /\ startPc \in {"started", "disabled"}
  /\ stopPc = "idle"
  /\ stops < MaxStops
  /\ running' = CronStop
  /\ stopPc' = "waiting"
  /\ stopSaw' = (InFlight # {})
  /\ UNCHANGED << cfg, auxVars, startVars, firings, jobWaiter, stops >>

StopReturn ==
  /\ stopPc = "waiting"
  /\ StopMayReturn
  /\ stopPc' = "idle"
  /\ stops' = stops + 1
  /\ UNCHANGED << cfg, auxVars, startVars, running, firings, jobWaiter, stopSaw >>

\* ------------------------------------------------------ the specification
Next ==
  \/ StartBegin
  \/ AddJob
  \/ CronStart
  \/ \E e \in 1..Len(entries) : Tick(e)
  \/ \E f \in Firings, resp \in Responses : FetchReturn(f, resp)
  \/ \E f \in Firings : FilterStep(f)
  \/ \E f \in Firings : BuildStep(f)
  \/ \E f \in Firings, ok \in BOOLEAN : DispatchReturn(f, ok)
  \/ StopCall
  \/ StopReturn

Spec == Init /\ [][Next]_vars

\* ------------------------------------------- the clock and the run loop
\* Time passes. The clock counts the seconds from the moment the run loop
\* begins, and it is left alone once nothing is there to read it: the
\* engine stopped and no firing in flight
AdvanceClock ==
  /\ now < MaxTime
  /\ loop.pc # "new"
  /\ running \/ InFlight # {}
  /\ now' = now + 1
  /\ UNCHANGED << cfg, startVars, running, firings, jobWaiter, stopVars,
                  times, loop, mu, query, call, ret >>

\* cron.run begins, on the goroutine cron.Start has started: the Next of
\* every entry is computed from the clock, then the loop waits in its select
RunLoopBegin ==
  /\ running
  /\ loop.pc = "new"
  /\ times' = [e \in 1..Len(entries) |->
                [prev |-> 0, next |-> ScheduleNext(entries[e].spec, now)]]
  /\ loop' = [pc |-> "select", entry |-> 0, at |-> now]
  /\ UNCHANGED << cfg, startVars, running, firings, jobWaiter, stopVars,
                  now, mu, query, call, ret >>

\* The run loop's timer fires and entry e is due: its job is started and
\* its Prev becomes its Next
TimedTick(e) ==
  /\ loop.pc = "select"
  /\ times[e].next <= now
  /\ startJob(e)
  /\ times' = [times EXCEPT ![e].prev = times[e].next]
  /\ loop' = [pc |-> "update", entry |-> e, at |-> now]
  /\ UNCHANGED << now, mu, query, call, ret >>

\* ... then its Next becomes the schedule's next activation after the time
\* the timer fired at, and the loop waits in its select again
RunLoopNext ==
  /\ loop.pc = "update"
  /\ times' = [times EXCEPT ![loop.entry].next =
                              ScheduleNext(entries[loop.entry].spec, loop.at)]
  /\ loop' = [loop EXCEPT !.pc = "select", !.entry = 0]
  /\ UNCHANGED << cfg, startVars, running, firings, jobWaiter, stopVars,
                  now, mu, query, call, ret >>

\* The run loop of a running engine takes what is sent to it (the stop
\* signal, a request for a snapshot) in its select only
LoopInSelect == running => loop.pc = "select"

\* Stop, the run loop being one of the goroutines: a running loop takes
\* the stop signal in its select
TimedStopCall ==
  /\ LoopInSelect
  /\ StopCall

\* --------------------------------------------------------- GetJobStatus
\* A faulty variant: a firing in flight holds the lock as a writer
RLockFree_FiringsHold == InFlight = {}

\* s.mu.RLock() blocks while a writer holds the lock; addJob, the one
\* writer, takes and releases it within one step
RLockFree == TRUE

\* A faulty variant: the entries are read while the run loop writes them
SnapshotReady_Unsynchronized == TRUE

\* cron.Entries(): the run loop of a running engine answers with a copy of
\* the entries from its select; the entries of an engine that does not run
\* are copied by the caller
SnapshotReady == LoopInSelect

\* Prev and Next of entry id: the zero time until the run loop has begun
EntryTimes(id) ==
  IF id \in DOMAIN times THEN times[id] ELSE [prev |-> 0, next |-> 0]

\* A faulty variant: Running tells whether a firing of the entry is in flight
JobStatus_RunningIfInFlight(name, id) ==
  [Name |-> name, NextRun |-> EntryTimes(id).next, PrevRun |-> EntryTimes(id).prev,
   Running |-> \E f \in InFlight : f.entry = id, entry |-> id]

\* The JobStatus of one registry entry; entry, the EntryID it was read
\* from, is not a field of JobStatus
JobStatus(name, id) ==
  [Name |-> name, NextRun |-> EntryTimes(id).next, PrevRun |-> EntryTimes(id).prev,
   Running |-> id \in 1..Len(entries), entry |-> id]

\* GetJobStatus is called: s.mu.RLock()
QueryCall ==
  /\ query.pc = "idle"
  /\ RLockFree
  /\ mu' = mu + 1
  /\ query' = [pc |-> "reading", todo |-> DOMAIN jobs, result |-> <<>>]
  /\ UNCHANGED << cfg, startVars, running, firings, jobWaiter, stopVars,
                  now, times, loop, call, ret >>

\* One turn of the loop over s.jobs, in the order the map gives: the entry
\* is read with s.cron.Entry(entryID) and its status appended
QueryRead(name) ==
  /\ query.pc = "reading"
  /\ name \in query.todo
  /\ SnapshotReady
  /\ query' = [query EXCEPT !.todo = @ \ {name},
                            !.result = Append(@, JobStatus(name, jobs[name]))]
  /\ UNCHANGED << cfg, startVars, running, firings, jobWaiter, stopVars,
                  now, times, loop, mu, call, ret >>

\* GetJobStatus returns its result to the caller: s.mu.RUnlock()
QueryReturn ==
  /\ query.pc = "reading"
  /\ query.todo = {}
  /\ mu' = mu - 1
  /\ query' = [pc |-> "idle", todo |-> {}, result |-> <<>>]
  /\ UNCHANGED << cfg, startVars, running, firings, jobWaiter, stopVars,
                  now, times, loop, call, ret >>

\* What the backend answers in the specification with a clock
TimedResponses ==
  { [kind |-> "transport", status |-> 0, body |-> <<>>, json |-> FALSE],
    [kind |-> "http", status |-> 200, body |-> <<AlertX>>, json |-> TRUE] }

\* The scheduler with its clock and its run loop's bookkeeping, of a
\* configuration whose jobs run every second
InitTimed ==
  /\ cfg \in TimedConfigs
  /\ InitScheduler
  /\ now = 0
  /\ call = Nil
  /\ ret = Nil

NextTimed ==
  \/ StartBegin
  \/ AddJob
  \/ CronStart
  \/ RunLoopBegin
  \/ AdvanceClock
  \/ \E e \in 1..Len(entries) : TimedTick(e)
  \/ RunLoopNext
  \/ \E f \in Firings, resp \in TimedResponses : FetchReturn(f, resp)
  \/ \E f \in Firings : FilterStep(f)
  \/ \E f \in Firings : BuildStep(f)
  \/ \E f \in Firings, ok \in BOOLEAN : DispatchReturn(f, ok)
  \/ TimedStopCall
  \/ StopReturn

SpecTimed == InitTimed /\ [][NextTimed]_vars

\* The same scheduler with calls of GetJobStatus at any moment; here the
\* backend answers every fetch and the sink accepts every delivery
OkResponse ==
  [kind |-> "http", status |-> 200, body |-> <<AlertX, AlertY>>, json |-> TRUE]

NextStatus ==
  \/ StartBegin
  \/ AddJob
  \/ CronStart
  \/ RunLoopBegin
  \/ AdvanceClock
  \/ \E e \in 1..Len(entries) : TimedTick(e)
  \/ RunLoopNext
  \/ \E f \in Firings : FetchReturn(f, OkResponse)
  \/ \E f \in Firings : FilterStep(f)
  \/ \E f \in Firings : BuildStep(f)
  \/ \E f \in Firings : DispatchReturn(f, TRUE)
  \/ TimedStopCall
  \/ StopReturn
  \/ QueryCall
  \/ \E name \in DOMAIN jobs : QueryRead(name)
  \/ QueryReturn

SpecStatus == InitTimed /\ [][NextStatus]_vars

\* ---------------------------------------------------- the pure functions
\* The arguments the pure functions are called with
PureAlerts == {AlertX, AlertY, AlertS, AlertXHi, AlertBare}
AlertSeqs == UNION { [1..n -> PureAlerts] : n \in 0..MaxAlerts }
Predicates ==
  { EmptyLabels, TeamX, [team |-> "x", severity |-> "hi"], [severity |-> "hi"] }
UnixTimes == {0, 9, 10, 1762041600}
ParseAlphabet == {"0", "5", "9", ":", "a"}
SimpleTimes == UNION { [1..n -> ParseAlphabet] : n \in 0..MaxLen }

PureCalls ==
  [fn : {"FilterAlertsByLabels"}, alerts : AlertSeqs, matchLabels : Predicates]
  \cup [fn : {"ConvertToIncidentPayload"}, alerts : AlertSeqs, unix : UnixTimes]
  \cup [fn : {"ParseSimpleSchedule"}, simpleTime : SimpleTimes]

\* A call returns; the scheduler is not part of it
Return(value) ==
  /\ ret = Nil
  /\ ret' = [value |-> value]
  /\ UNCHANGED << cfg, startVars, running, firings, jobWaiter, stopVars,
                  now, times, loop, mu, query, call >>

ApplyFilterAlertsByLabels ==
  /\ call.fn = "FilterAlertsByLabels"
  /\ Return(FilterAlertsByLabels(call.alerts, call.matchLabels))

ApplyConvertToIncidentPayload ==
  /\ call.fn = "ConvertToIncidentPayload"
  /\ Return(ConvertToIncidentPayload(call.alerts, call.unix))

ApplyParseSimpleSchedule ==
  /\ call.fn = "ParseSimpleSchedule"
  /\ Return(ParseSimpleSchedule(call.simpleTime))

\* One call of a pure function, of any arguments
InitPure ==
  /\ cfg = [Enable |-> FALSE, Jobs |-> <<>>]
  /\ InitScheduler
  /\ now = 0
  /\ call \in PureCalls
  /\ ret = Nil

NextPure ==
  \/ ApplyFilterAlertsByLabels
  \/ ApplyConvertToIncidentPayload
  \/ ApplyParseSimpleSchedule

SpecPure == InitPure /\ [][NextPure]_vars

\* ================================================================ claims
Range(q) == {q[i] : i \in 1..Len(q)}
FailedOutcomes == {"fetch_error", "no_match", "build_failed", "dispatch_error"}

\* A fetch fails on a transport error, a status other than 200, or a body
\* that is not a JSON list of alerts
FetchFails(resp) ==
  resp.kind = "transport" \/ resp.status # 200 \/ ~resp.json

\* Some alert of the response is active and satisfies the job's predicate
SomeActiveMatch(resp, job) ==
  \E i \in 1..Len(resp.body) :
    /\ resp.body[i].state = "active"
    /\ \A key \in DOMAIN job.MatchLabels :
         key \in DOMAIN resp.body[i].labels
         /\ resp.body[i].labels[key] = job.MatchLabels[key]

\* C1 (as claimed): two firings of the same job never overlap: no two
\* firings of one cron entry are in flight at the same time.
C1_NoOverlap ==
  \A f \in InFlight :
    /\ CopiesIn(f, firings) = 1
    /\ \A g \in InFlight : g.entry = f.entry => g = f

\* C2: Stop returns only after every firing that was in flight when it was
\* called has finished: once a call of Stop has returned, no firing is in
\* its fetch, filter, build or dispatch step.
C2_StopDrains ==
  (stops > 0 /\ stopPc = "idle") => InFlight = {}

\* a call of Stop that found a firing in flight has returned
C2_Witness ==
  stops > 0 /\ stopPc = "idle" /\ stopSaw /\ firings # EmptyBag

\* C3: after Stop has been called no new firing starts: from the call on,
\* no step adds a firing, whatever entries are registered.
C3_NoFiringAfterStop ==
  [][ (stopPc = "waiting" \/ stops > 0)
        => BagCardinality(firings') = BagCardinality(firings) ]_vars

\* Stop has been called on a scheduler with a registered entry whose tick
\* the bound on firings would still let start
C3_Witness ==
  /\ stops > 0
  /\ Len(entries) > 0
  /\ BagCardinality(firings) < MaxFirings

\* C4: a firing whose filtered alert sequence is empty builds no payload
\* and makes no dispatch call, and ConvertToIncidentPayload of the empty
\* sequence is nil.
C4_EmptyNoDispatch ==
  /\ \A unix \in 0..MaxTime : ConvertToIncidentPayload(<<>>, unix) = Nil
  /\ \A f \in Firings :
       ("filter" \in Range(f.log) /\ f.matched = <<>>)
         => /\ f.pc = "done"
            /\ "build" \notin Range(f.log)
            /\ f.payload = Nil
            /\ f.calls = <<>>

\* one firing fetched no active alert, another fetched alerts of which none
\* satisfies its job's predicate
C4_Witness ==
  /\ \E f \in Firings : "filter" \in Range(f.log) /\ f.alerts = <<>>
  /\ \E f \in Firings :
       "filter" \in Range(f.log) /\ f.alerts # <<>> /\ f.matched = <<>>

\* C5: a firing whose fetch fails makes no dispatch call and ends without
\* running filter or build.
C5_FetchFailureEnds ==
  \A f \in Firings :
    (f.resp # Nil /\ FetchFails(f.resp))
      => /\ f.pc = "done"
         /\ f.log = <<"fetch">>
         /\ f.calls = <<>>
         /\ f.payload = Nil

\* a firing got a non-200 answer and another a malformed body
C5_Witness ==
  /\ \E f \in Firings : f.resp # Nil /\ f.resp.kind = "http" /\ f.resp.status # 200
  /\ \E f \in Firings : f.resp # Nil /\ f.resp.status = 200 /\ ~f.resp.json

\* C6: a firing that ends in a failure (fetch error, no match, build
\* failure, dispatch error) changes nothing about scheduling: the registry,
\* the cron entries and the running engine are after that step what they
\* were before it, so the guard of the entry's next tick (the engine runs,
\* the entry exists) is as true as it was.
C6_FailureKeepsSchedule ==
  [][ (\E f \in BagToSet(firings') :
         /\ f.outcome \in FailedOutcomes
         /\ CopiesIn(f, firings') > CopiesIn(f, firings))
        => /\ entries' = entries
           /\ jobs' = jobs
           /\ running' = running
           /\ startPc' = startPc ]_vars

\* two firings of one entry have failed, the engine still runs and the
\* entry is still registered
C6_Witness ==
  /\ running
  /\ \E f \in Firings, g \in Firings :
       /\ f.entry = g.entry
       /\ f.outcome \in FailedOutcomes /\ g.outcome \in FailedOutcomes
       /\ (f # g \/ CopiesIn(f, firings) > 1)
       /\ f.entry \in 1..Len(entries)
       /\ \E n \in DOMAIN jobs : jobs[n] = f.entry

\* C7: a firing calls the dispatch sink at most once; a finished firing
\* whose fetch succeeded with an active alert satisfying the job's
\* predicate called it exactly once (also when the call failed); and a
\* call comes only after fetch, filter and build of that firing, in order.
C7_DispatchOnce ==
  \A f \in Firings :
    /\ Len(f.calls) <= 1
    /\ (f.pc = "done" /\ ~FetchFails(f.resp) /\ SomeActiveMatch(f.resp, JobOf(f)))
         => Len(f.calls) = 1
    /\ Len(f.calls) = 1 => f.log = <<"fetch", "filter", "build", "dispatch">>
    /\ "dispatch" \in Range(f.log) => Len(f.calls) = 1

\* one firing has dispatched with success, another with a dispatch error
C7_Witness ==
  /\ \E f \in Firings : f.outcome = "sent" /\ Len(f.calls) = 1
  /\ \E f \in Firings : f.outcome = "dispatch_error" /\ Len(f.calls) = 1

\* The schedule is empty or does not parse
BadSchedule(sched) == sched = <<>> \/ ~CronParseOK(sched)

\* C8: once addJob has been called for an enabled job whose schedule is
\* empty or does not parse, Start has returned an error naming that job,
\* and neither the cron engine nor the registry holds an entry of it.
C8_BadScheduleFailsStart ==
  \A i \in 1..idx :
    (cfg.Jobs[i].Enable /\ BadSchedule(cfg.Jobs[i].Schedule))
      => /\ startPc = "failed"
         /\ startErr # Nil
         /\ startErr.job = cfg.Jobs[i].Name
         /\ \A e \in 1..Len(entries) : entries[e].def # i
         /\ \A n \in DOMAIN jobs :
              jobs[n] \in 1..Len(entries) /\ entries[jobs[n]].def # i

\* Start has failed on a job whose schedule does not parse, whose name an
\* earlier, registered job bears too
C8_Witness ==
  /\ startPc = "failed"
  /\ cfg.Jobs[idx].Schedule # <<>>
  /\ cfg.Jobs[idx].Name \in DOMAIN jobs

\* C9: when the registration of a job fails, the cron engine is never
\* started and no job fires, the jobs registered before it included.
C9_NoPartialScheduling ==
  startErr # Nil
    => /\ startPc = "failed"
       /\ ~running
       /\ firings = EmptyBag

\* a registration failed after another job had been registered
C9_Witness ==
  startErr # Nil /\ Len(entries) > 0

\* The schedule has the simple form HH:MM
IsSimpleSchedule(sched) ==
  LET parts == Split(sched, ":") IN
  Len(parts) = 2 /\ IsUInt(parts[1]) /\ IsUInt(parts[2])

\* C10 (as claimed): registration accepts both forms of schedule: an
\* enabled job with a simple HH:MM schedule gets a cron entry for the
\* daily pattern ParseSimpleSchedule gives, and one with a cron expression
\* gets an entry for that expression unchanged.
C10_BothScheduleForms ==
  \A i \in 1..idx :
    LET job == cfg.Jobs[i] IN
    job.Enable =>
      /\ IsSimpleSchedule(job.Schedule)
           => \E e \in 1..Len(entries) :
                /\ entries[e].def = i
                /\ entries[e].spec = ParseSimpleSchedule(job.Schedule).cron
      /\ CronParseOK(job.Schedule)
           => \E e \in 1..Len(entries) :
                entries[e].def = i /\ entries[e].spec = job.Schedule

\* The next step of the job function of firing f, whatever it is
FiringStep(f) ==
  \/ \E resp \in Responses : FetchReturn(f, resp)
  \/ FilterStep(f)
  \/ BuildStep(f)
  \/ \E ok \in BOOLEAN : DispatchReturn(f, ok)

\* C12: firings of different jobs are independent: while a firing of one
\* entry is blocked in its fetch or in its dispatch call, a tick of any
\* other entry of the running engine starts a firing (as far as the bound
\* on firings lets any tick start), and every firing in flight of another
\* entry can take its next step, up to its end.
C12_JobsIndependent ==
  \A f \in InFlight :
    f.pc \in {"fetch", "dispatch"}
      => /\ \A e \in 1..Len(entries) :
              (e # f.entry /\ running /\ BagCardinality(firings) < MaxFirings)
                => ENABLED Tick(e)
         /\ \A g \in InFlight : g.entry # f.entry => ENABLED FiringStep(g)

\* a firing of one entry is blocked in its dispatch call, and a firing of
\* another entry has started and run to its end with a delivery
C12_Witness ==
  \E f \in InFlight, g \in Firings :
    /\ f.pc = "dispatch"
    /\ g.entry # f.entry
    /\ g.outcome = "sent"
    /\ running

\* C15: a call of Stop after the first has no effect: on a scheduler that
\* a call of Stop has stopped, each step of a later call (the call and its
\* return) leaves the registry, the cron entries, the stopped engine and
\* the firings as they were, and once called it can return.
C15_StopIdempotent ==
  [][ (stops >= 1 /\ stopPc' # stopPc)
        => /\ ~running /\ ~running'
           /\ UNCHANGED << startVars, firings, jobWaiter >>
           /\ (stopPc' = "waiting" => (ENABLED StopReturn)') ]_vars

\* Stop has been called and has returned twice on a scheduler that had
\* started a firing
C15_Witness ==
  stops >= 2 /\ firings # EmptyBag

\* The channel overrides a job definition can carry: each of the five
\* fields empty or set
ChannelOverrides ==
  [SlackChannelID : {"", "C1"}, TelegramChatID : {"", "42"},
   LarkWebhookKey : {"", "lark-key"}, MSTeamsPowerURLKey : {"", "teams-key"},
   EmailTo : {"", "ops@example.org"}]

\* C16 (as claimed): the parameters of every dispatch call hold the key
\* oncall_enable, "false" by default, and some job definition overrides
\* the default, so that its parameters hold another value.
C16_OncallOverridable ==
  /\ \A f \in Firings : \A i \in 1..Len(f.calls) :
       "oncall_enable" \in DOMAIN f.calls[i].params
  /\ \E job \in JobDefs, ch \in ChannelOverrides :
       buildParamsFromJob([job EXCEPT !.Channels = ch])["oncall_enable"] # "false"

\* The cron entries registered for the definitions of one name
EntriesNamed(name) ==
  {e \in 1..Len(entries) : cfg.Jobs[entries[e].def].Name = name}

Last(S) == CHOOSE x \in S : \A y \in S : y <= x

\* C11: registering enabled jobs of one name does not fail, and a status
\* query made afterwards returns one record for that name, read from the
\* cron entry registered last for it: Start fails on a job of a bad
\* schedule only; while a query holds the registry, no two of its records
\* bear the same name, each is read from the last entry registered for its
\* name, and once the loop is over there is a record for every name that
\* has an entry.
C11_LastRegistrationWins ==
  /\ startErr # Nil
       => /\ startErr.job = cfg.Jobs[idx].Name
          /\ BadSchedule(cfg.Jobs[idx].Schedule)
  /\ query.pc = "reading"
       => /\ \A i, j \in 1..Len(query.result) :
               i # j => query.result[i].Name # query.result[j].Name
          /\ \A i \in 1..Len(query.result) :
               LET r == query.result[i] IN
               /\ EntriesNamed(r.Name) # {}
               /\ r.entry = Last(EntriesNamed(r.Name))
          /\ query.todo = {}
               => {query.result[i].Name : i \in 1..Len(query.result)}
                    = {n \in {"a", "b"} : EntriesNamed(n) # {}}

\* Start has registered two definitions of one name, and a status query
\* made after it has read the whole registry: one record
C11_Witness ==
  /\ startPc = "started"
  /\ \E n \in DOMAIN jobs : Cardinality(EntriesNamed(n)) = 2
  /\ query.pc = "reading"
  /\ query.todo = {}
  /\ Len(query.result) = 1

\* A step of the run loop on its own: its beginning, or the second
\* assignment of a tick
RunLoopStep == RunLoopBegin \/ RunLoopNext

\* C13: a call of GetJobStatus, whatever firings are in flight and whether
\* Start is registering or Stop waiting, is never stuck: it can take its
\* next step, unless the run loop is on its way to the select in which it
\* answers; and each record read carries the Prev and Next of one state of
\* its entry at rest (both zero before the run loop has begun, otherwise
\* Prev earlier than Next), never those of an entry between the two
\* assignments of a tick (Prev equal to Next).
C13_StatusQueryConsistent ==
  /\ query.pc = "reading"
       => \/ ENABLED QueryReturn
          \/ ENABLED (\E name \in query.todo : QueryRead(name))
          \/ ~SnapshotReady /\ ENABLED RunLoopStep
  /\ \A i \in 1..Len(query.result) :
       LET r == query.result[i] IN
       \/ r.PrevRun = 0 /\ r.NextRun = 0
       \/ r.PrevRun < r.NextRun

\* a status query has read the entry of a job that has fired, while a
\* firing of another job is in flight and a call of Stop waits for it
C13_Witness ==
  /\ query.pc = "reading"
  /\ stopPc = "waiting"
  /\ \E i \in 1..Len(query.result), f \in InFlight :
       /\ query.result[i].PrevRun > 0
       /\ f.entry # query.result[i].entry

\* C14: no firing holds Scheduler.mu during its fetch or its dispatch call:
\* while a firing is in one of them the lock has no holder but a status
\* query that is reading; a status query can be called (it gets the lock);
\* and the firing can take its next step whether a query reads or not.
C14_NoLockAcrossFiring ==
  \A f \in InFlight :
    f.pc \in {"fetch", "dispatch"}
      => /\ mu = (IF query.pc = "reading" THEN 1 ELSE 0)
         /\ query.pc = "idle" => ENABLED QueryCall
         /\ ENABLED FiringStep(f)

\* a firing is in its dispatch call, another in its fetch, and a status
\* query holds the lock
C14_Witness ==
  /\ query.pc = "reading"
  /\ mu = 1
  /\ \E f \in InFlight, g \in InFlight : f.pc = "dispatch" /\ g.pc = "fetch"

\* C19 (as claimed): two payloads built by two firings of the same job
\* carry different group keys, each the tag "scheduled-" followed by the
\* time in seconds of its build.
C19_GroupKeysDiffer ==
  \A f \in Firings, g \in Firings :
    (f.entry = g.entry /\ f.payload # Nil /\ g.payload # Nil)
      => /\ \E unix \in 0..MaxTime : f.payload.groupKey = GroupKey(unix)
         /\ f # g => f.payload.groupKey # g.payload.groupKey
         /\ CopiesIn(f, firings) = 1

\* The alert's labels hold every key of the predicate with the same value
Satisfies(alert, P) ==
  \A key \in DOMAIN P : key \in DOMAIN alert.labels /\ alert.labels[key] = P[key]

\* The k-th smallest of a set of numbers
Kth(S, k) == CHOOSE i \in S : Cardinality({j \in S : j < i}) = k - 1

\* C17: FilterAlertsByLabels(A, P) is the subsequence of A of the alerts
\* that satisfy P: as long as the number of the positions of A whose alert
\* satisfies P, its k-th alert the alert of the k-th such position (so in
\* A's order, a repeated alert repeated, none dropped, none added); and it
\* is A when P is empty.
C17_FilterIsMatchingSubsequence ==
  (call # Nil /\ call.fn = "FilterAlertsByLabels" /\ ret # Nil)
    => LET A == call.alerts
           P == call.matchLabels
           R == ret.value
           M == {i \in 1..Len(A) : Satisfies(A[i], P)}
       IN /\ Len(R) = Cardinality(M)
          /\ \A k \in 1..Len(R) : R[k] = A[Kth(M, k)]
          /\ DOMAIN P = {} => R = A

\* the filter has returned the two equal alerts of three that satisfy a
\* predicate, the third lacking a key of it
C17_Witness ==
  /\ call # Nil /\ call.fn = "FilterAlertsByLabels" /\ ret # Nil
  /\ DOMAIN call.matchLabels # {}
  /\ Len(call.alerts) = 3
  /\ Len(ret.value) = 2
  /\ ret.value[1] = ret.value[2]
  /\ \E i \in 1..3 : \E key \in DOMAIN call.matchLabels :
       key \notin DOMAIN call.alerts[i].labels

\* C18: of a sequence of alerts that is not empty ConvertToIncidentPayload
\* returns a payload of status "firing", whose common labels and
\* annotations are the first alert's and whose alerts list has one record
\* for each alert, in order, with that alert's state, labels, annotations
\* and fingerprint.
C18_PayloadOfFirstAlert ==
  (call # Nil /\ call.fn = "ConvertToIncidentPayload" /\ ret # Nil
     /\ Len(call.alerts) > 0)
    => LET A == call.alerts
           p == ret.value
       IN /\ p # Nil
          /\ p.status = "firing"
          /\ p.commonLabels = A[1].labels
          /\ p.commonAnnotations = A[1].annotations
          /\ Len(p.alerts) = Len(A)
          /\ \A i \in 1..Len(A) :
               /\ p.alerts[i].status = A[i].state
               /\ p.alerts[i].labels = A[i].labels
               /\ p.alerts[i].annotations = A[i].annotations
               /\ p.alerts[i].fingerprint = A[i].fingerprint

\* the payload of several alerts has been built, the labels and the
\* annotations of the first not those of the last
C18_Witness ==
  /\ call # Nil /\ call.fn = "ConvertToIncidentPayload" /\ ret # Nil
  /\ Len(call.alerts) > 1
  /\ call.alerts[1].labels # call.alerts[Len(call.alerts)].labels
  /\ call.alerts[1].annotations # call.alerts[Len(call.alerts)].annotations
  /\ ret.value # Nil

\* C20 (as claimed): ParseSimpleSchedule maps H:M, H and M decimal
\* numbers, to "m h * * *", m and h the numbers without leading zeros
\* ("09:00" to "0 9 * * *", "09:05" to "5 9 * * *", "9:0" to "0 9 * * *"),
\* and rejects every other input with an error and an empty result.
C20_ParseSimpleSchedule ==
  /\ ParseSimpleSchedule(<<"0", "9", ":", "0", "0">>).cron
       = <<"0", " ", "9", " ", "*", " ", "*", " ", "*">>
  /\ ParseSimpleSchedule(<<"0", "9", ":", "0", "5">>).cron
       = <<"5", " ", "9", " ", "*", " ", "*", " ", "*">>
  /\ ParseSimpleSchedule(<<"9", ":", "0">>).cron
       = <<"0", " ", "9", " ", "*", " ", "*", " ", "*">>
  /\ ParseSimpleSchedule(<<"9", "0", "0">>) = [err |-> TRUE, cron |-> <<>>]
  /\ (call # Nil /\ call.fn = "ParseSimpleSchedule" /\ ret # Nil)
       => LET parts == Split(call.simpleTime, ":")
              r == ret.value
          IN IF IsSimpleSchedule(call.simpleTime)
               THEN /\ ~r.err
                    /\ r.cron = Itoa(Atoi(parts[2])) \o <<" ">> \o Itoa(Atoi(parts[1]))
                                  \o <<" ", "*", " ", "*", " ", "*">>
               ELSE r.err /\ r.cron = <<>>

\* C21: a disabled job is skipped without a word: addJob of a disabled
\* definition, whatever its schedule (empty, out of range, of the simple
\* form, or valid), returns no error and leaves the cron entries and the
\* registry as they are; so no error of Start comes from a disabled job,
\* no cron entry is of one and none fires. And with the global switch off
\* Start returns no error, calls addJob for no job and starts no firing.
C21_DisabledSkipped ==
  /\ \A job \in JobDefs :
       \A sched \in {SchedEmpty, SchedRange, SchedSimple, SchedDaily} :
         addJob([job EXCEPT !.Enable = FALSE, !.Schedule = sched], idx + 1)
           = [err |-> NoErr, entries |-> entries, jobs |-> jobs]
  /\ startErr # Nil => cfg.Jobs[idx].Enable
  /\ \A e \in 1..Len(entries) : cfg.Jobs[entries[e].def].Enable
  /\ \A f \in Firings : JobOf(f).Enable
  /\ ~cfg.Enable
       => /\ startPc \in {"new", "disabled"}
          /\ startErr = Nil
          /\ idx = 0
          /\ entries = <<>>
          /\ DOMAIN jobs = {}
          /\ ~running
          /\ firings = EmptyBag

\* Start has gone past a disabled job of an empty schedule and has
\* started the engine, and the job of the other definition has fired
C21_Witness ==
  /\ startPc = "started"
  /\ \E i \in 1..Len(cfg.Jobs) :
       ~cfg.Jobs[i].Enable /\ cfg.Jobs[i].Schedule = <<>>
  /\ firings # EmptyBag

\* C22: every alert record of a payload a firing hands to the dispatch
\* sink is the record of an alert of the answer to that firing's own
\* fetch, an alert whose state is "active" and that satisfies the
\* predicate of the firing's job.
C22_OnlyActiveMatchingDispatched ==
  \A f \in Firings : \A c \in 1..Len(f.calls) :
    LET sent == f.calls[c].payload.alerts IN
    \A i \in 1..Len(sent) :
      /\ sent[i].status = "active"
      /\ f.resp # Nil
      /\ \E j \in 1..Len(f.resp.body) :
           LET a == f.resp.body[j] IN
           /\ a.state = "active"
           /\ Satisfies(a, JobOf(f).MatchLabels)
           /\ sent[i].labels = a.labels
           /\ sent[i].annotations = a.annotations
           /\ sent[i].fingerprint = a.fingerprint

\* one firing has dispatched one of the two active alerts it fetched, the
\* other failing its job's predicate; and a firing that fetched nothing
\* but a suppressed alert has ended without a call
C22_Witness ==
  /\ \E f \in Firings :
       /\ Len(f.calls) = 1
       /\ Len(f.resp.body) = 2
       /\ Len(f.calls[1].payload.alerts) = 1
  /\ \E f \in Firings :
       /\ f.pc = "done"
       /\ f.resp = [kind |-> "http", status |-> 200, body |-> <<AlertS>>, json |-> TRUE]
       /\ f.calls = <<>>

\* C23: in the parameters of a dispatch call each channel key is there if
\* and only if the job's override of that channel is not empty, with the
\* override as its value; no key is there but these and oncall_enable;
\* and the call's source tag is "scheduled". This holds of every call made
\* and of the parameters of every combination of overrides (a fact of
\* buildParamsFromJob alone, looked at before Start has begun).
C23_ChannelParams ==
  /\ \A f \in Firings : \A c \in 1..Len(f.calls) :
       LET params == f.calls[c].params
           ch == JobOf(f).Channels
       IN /\ f.calls[c].source = "scheduled"
          /\ DOMAIN params \subseteq ChannelKeys \cup {"oncall_enable"}
          /\ ("slack_channel_id" \in DOMAIN params) = (ch.SlackChannelID # "")
          /\ ("telegram_chat_id" \in DOMAIN params) = (ch.TelegramChatID # "")
          /\ ("lark_other_webhook_url" \in DOMAIN params) = (ch.LarkWebhookKey # "")
          /\ ("msteams_other_power_url" \in DOMAIN params) = (ch.MSTeamsPowerURLKey # "")
          /\ ("email_to" \in DOMAIN params) = (ch.EmailTo # "")
          /\ ch.SlackChannelID # "" => params["slack_channel_id"] = ch.SlackChannelID
          /\ ch.TelegramChatID # "" => params["telegram_chat_id"] = ch.TelegramChatID
          /\ ch.LarkWebhookKey # "" => params["lark_other_webhook_url"] = ch.LarkWebhookKey
          /\ ch.MSTeamsPowerURLKey # ""
               => params["msteams_other_power_url"] = ch.MSTeamsPowerURLKey
          /\ ch.EmailTo # "" => params["email_to"] = ch.EmailTo
  /\ startPc = "new" => \A ch \in ChannelOverrides :
       LET params == buildParamsFromJob([TimedJobA EXCEPT !.Channels = ch]) IN
       /\ DOMAIN params \subseteq ChannelKeys \cup {"oncall_enable"}
       /\ ("slack_channel_id" \in DOMAIN params) = (ch.SlackChannelID # "")
       /\ ("telegram_chat_id" \in DOMAIN params) = (ch.TelegramChatID # "")
       /\ ("lark_other_webhook_url" \in DOMAIN params) = (ch.LarkWebhookKey # "")
       /\ ("msteams_other_power_url" \in DOMAIN params) = (ch.MSTeamsPowerURLKey # "")
       /\ ("email_to" \in DOMAIN params) = (ch.EmailTo # "")
       /\ \A k \in DOMAIN params \ {"oncall_enable"} :
            params[k] \in {ch.SlackChannelID, ch.TelegramChatID, ch.LarkWebhookKey,
                           ch.MSTeamsPowerURLKey, ch.EmailTo}

\* a job with some overrides set and others empty has dispatched, and so
\* has a job with none
C23_Witness ==
  /\ \E f \in Firings :
       /\ Len(f.calls) = 1
       /\ JobOf(f).Channels.SlackChannelID # ""
       /\ JobOf(f).Channels.TelegramChatID = ""
  /\ \E f \in Firings :
       /\ Len(f.calls) = 1
       /\ JobOf(f).Channels = NoChannels

\* The definition the cron entry of a firing was added for
OwnDef(f) == cfg.Jobs[entries[f.entry].def]

\* C24: every enabled definition of a valid schedule that Start has come
\* to has one cron entry of its own, whether or not an earlier definition
\* bears its name; each entry goes on being started when it is due, on its
\* own schedule, and each firing works with the backend, the predicate and
\* the channel overrides of its own definition; the registry holds, for a
\* name, the entry registered last for it, and a status query reads no
\* other.
C24_SameNameBothFire ==
  /\ \A i \in 1..idx :
       cfg.Jobs[i].Enable /\ ~BadSchedule(cfg.Jobs[i].Schedule)
         => Cardinality({e \in 1..Len(entries) : entries[e].def = i}) = 1
  /\ \A e \in 1..Len(entries) : entries[e].spec = cfg.Jobs[entries[e].def].Schedule
  /\ loop.pc = "select"
       => \A e \in 1..Len(entries) :
            /\ \E t \in 0..MaxTime : times[e].next = ScheduleNext(entries[e].spec, t)
            /\ (running /\ times[e].next <= now /\ BagCardinality(firings) < MaxFirings)
                 => ENABLED TimedTick(e)
  /\ \A f \in Firings :
       /\ f.client # Nil => f.client.baseURL = OwnDef(f).Alertmanager.URL
       /\ "filter" \in Range(f.log)
            => f.matched = FilterAlertsByLabels(f.alerts, OwnDef(f).MatchLabels)
       /\ \A c \in 1..Len(f.calls) :
            /\ f.calls[c].params = buildParamsFromJob(OwnDef(f))
            /\ f.calls[c].payload.scheduled_job = OwnDef(f).Name
  /\ DOMAIN jobs = {cfg.Jobs[entries[e].def].Name : e \in 1..Len(entries)}
  /\ \A n \in DOMAIN jobs : jobs[n] = Last(EntriesNamed(n))
  /\ Len(query.result) <= Cardinality(DOMAIN jobs)
  /\ \A i \in 1..Len(query.result) :
       query.result[i].entry = Last(EntriesNamed(query.result[i].Name))

\* two definitions of one name have both fired after Start, each firing
\* has dispatched with the parameters of its own definition, fetched from
\* its own backend, and a status query has read the whole registry: one
\* record, of the entry registered last
C24_Witness ==
  /\ startPc = "started"
  /\ cfg.Jobs = <<TimedJobA, TimedJobA2>>
  /\ \E f, g \in Firings :
       /\ f.entry = 1 /\ g.entry = 2
       /\ Len(f.calls) = 1 /\ Len(g.calls) = 1
       /\ f.calls[1].params # g.calls[1].params
       /\ f.client # g.client
  /\ query.pc = "reading"
  /\ query.todo = {}
  /\ Len(query.result) = 1
  /\ query.result[1].entry = 2

\* What a status query has to report of the registry as it is
StatusRecords == {JobStatus(n, jobs[n]) : n \in DOMAIN jobs}

\* C25: in every state the record of every registry entry has Running
\* true, whether a firing of the entry is in flight or not and whether
\* Stop has been called or not; a status query reads one record for each
\* name of the registry, each with Running true; and no step of a status
\* query changes the registry, the cron entries, their times, the engine's
\* running flag or the firings.
C25_StatusPureRead ==
  /\ [](/\ \A r \in StatusRecords : r.Running
        /\ \A i \in 1..Len(query.result) :
             /\ query.result[i].Running
             /\ query.result[i].Name \in DOMAIN jobs \ query.todo
             /\ query.result[i].entry = jobs[query.result[i].Name]
        /\ query.pc = "reading"
             => Len(query.result) = Cardinality(DOMAIN jobs \ query.todo))
  /\ [][query' # query
         => UNCHANGED << cfg, startVars, running, firings, jobWaiter, stopVars,
                         now, times, loop >>]_vars

\* Stop has stopped the engine and waits, and a status query has read the
\* records of two jobs, both with Running true: a firing of the one is in
\* flight, the other has fired and is idle
C25_Witness ==
  /\ stopPc = "waiting"
  /\ ~running
  /\ query.pc = "reading"
  /\ query.todo = {}
  /\ \E i, j \in 1..Len(query.result) :
       /\ query.result[i].Running /\ query.result[j].Running
       /\ \E f \in InFlight : f.entry = query.result[i].entry
       /\ \A f \in InFlight : f.entry # query.result[j].entry
       /\ \E f \in Firings : f.entry = query.result[j].entry /\ f.pc = "done"

====
